---- MODULE Spec2Model ----
(***************************************************************************)
(* boxchop: constructors of boxed slices Box<[T]> (src/src/lib.rs).        *)
(*                                                                         *)
(* The model follows one caller through one call at a time.  Storage is    *)
(* modelled at byte level: a handle is a (pointer, length) pair plus the   *)
(* static type view (MaybeUninit<T> or T), the heap block holds bytes that *)
(* are either defined (0..255) or indeterminate (Undef).  Every event the  *)
(* code performs on the allocator, on the cells and on the user closures   *)
(* is appended to `log`.                                                   *)
(*                                                                         *)
(* Widths are scaled to 16 bits (usize is two bytes), so that the size     *)
(* check of Layout::array is computed with its real arithmetic.  The three *)
(* element types stand for any T of that size: whether clone, default or   *)
(* gen can panic, and whether T has teardown logic, does not depend on the *)
(* size, so every value source but the bit copy may panic and teardown is  *)
(* recorded as a drop_in_place event.  A write through a null pointer      *)
(* faults (page zero is unmapped on the targets of std).                   *)
(***************************************************************************)
EXTENDS Integers, Sequences, FiniteSets, TLC

VARIABLES
    pc,     \* where the caller is: idle, fill (inside a strategy constructor's
            \* loop), held (a handle was returned), panicked, fault, dropped
    op,     \* the public function the caller called first
    ty,     \* the element type T of the call
    len,    \* the `len` argument
    val,    \* the `val` argument of new_copies / new_clones
    gen,    \* the `gen` argument of new_with
    ts,     \* the handle: the local `ts` of a constructor, then the value returned
    arg,    \* the handle last passed to assume_all_init
    src,    \* the values the caller built its own Box<[MaybeUninit<T>]> from
    idx,    \* position of the fill loop's iterator
    mem,    \* the heap block of the call
    log     \* the events performed so far in this call

vars == <<pc, op, ty, len, val, gen, ts, arg, src, idx, mem, log>>

----------------------------------------------------------------------------
(* Bounds of the model *)

MaxLen == 3

NumBlocks == 2

----------------------------------------------------------------------------
(* The target and the element types *)

PtrWidth == 16

USIZE_MAX == 2^PtrWidth - 1

ISIZE_MAX == 2^(PtrWidth - 1) - 1

Types == {"unit", "u8", "usize"}

SizeOf(t) == CASE t = "unit" -> 0
               [] t = "u8" -> 1
               [] t = "usize" -> PtrWidth \div 8

AlignOf(t) == CASE t = "unit" -> 1
                [] t = "u8" -> 1
                [] t = "usize" -> PtrWidth \div 8

MaxOf(t) == 2^(8 * SizeOf(t)) - 1

\* Sample values of each type: the all-zero value, one, and the largest one.
SampleVals(t) == {0, 1, MaxOf(t)} \cap 0..MaxOf(t)

\* The lengths a caller passes: the small ones, and the ones around the
\* limits of Layout::array.
Lens == (0..MaxLen) \cup {ISIZE_MAX \div 2, ISIZE_MAX \div 2 + 1, ISIZE_MAX, ISIZE_MAX + 1, USIZE_MAX}

----------------------------------------------------------------------------
(* Pointers, memory and handles *)

Null == 0

Undef == -1

\* std::ptr::NonNull::dangling(): the alignment of T, as an address.
Dangling(t) == AlignOf(t)

\* The addresses the allocator hands out.
HeapAddrs == {8 * k : k \in 1..NumBlocks}

\* The bytes the heap of the target can hold in one block.
HeapBytes == (MaxLen + 1) * (PtrWidth \div 8)

NoMem == [addr |-> Null, bytes |-> <<>>, live |-> FALSE]

NoHandle == [ptr |-> Null, len |-> 0, init |-> FALSE]

Ev(e, i) == [e |-> e, i |-> i]

LayoutErr == 0 - 1

\* Layout::array::<MaybeUninit<T>>(n): the byte size, or LayoutErr.
LayoutArray(t, n) ==
    IF SizeOf(t) # 0 /\ n > (ISIZE_MAX - (AlignOf(t) - 1)) \div SizeOf(t)
    THEN LayoutErr
    ELSE n * SizeOf(t)

\* What std::alloc::alloc / alloc_zeroed may return for a request of `size` bytes:
\* a null pointer (no memory; a zero-size request is undefined behaviour and
\* may return either), or a block.
AllocOutcomes(size) ==
    {Null} \cup (IF size <= HeapBytes THEN HeapAddrs ELSE {})

FreshBytes(size, zeroed) == [k \in 1..size |-> IF zeroed THEN 0 ELSE Undef]

\* Mutant: the slice is given the byte count of the layout, not the element count.
BoxFromRaw_bytes(p, n) == [ptr |-> p, len |-> n * SizeOf(ty'), init |-> FALSE]

\* Box::from_raw(slice::from_raw_parts_mut(p, n))
BoxFromRaw(p, n) == [ptr |-> p, len |-> n, init |-> FALSE]

\* Little-endian representation of a value in `size` bytes, and back.
ToBytes(v, size) == [k \in 1..size |-> (v \div 256^(k - 1)) % 256]

RECURSIVE FromBytes(_)
FromBytes(bs) ==
    IF bs = <<>> THEN 0 ELSE bs[1] + 256 * FromBytes(Tail(bs))

\* ptr.write(v) on cell i (0-based) of a block.
WriteCell(bytes, i, v, size) ==
    [k \in 1..Len(bytes) |->
        IF k > i * size /\ k <= (i + 1) * size
        THEN ToBytes(v, size)[k - i * size]
        ELSE bytes[k]]

\* Whether the handle's cells exist in memory.
HasStorage(h, t) ==
    \/ h.len * SizeOf(t) = 0 /\ h.ptr # Null
    \/ h.len * SizeOf(t) > 0 /\ h.ptr # Null /\ mem.live /\ mem.addr = h.ptr
       /\ Len(mem.bytes) = h.len * SizeOf(t)

\* The elements read through a handle whose storage exists.
Elements(h, t) ==
    [i \in 1..h.len |->
        IF SizeOf(t) = 0 THEN 0
        ELSE FromBytes(SubSeq(mem.bytes, (i - 1) * SizeOf(t) + 1, i * SizeOf(t)))]

Defined(bytes) == \A k \in 1..Len(bytes) : bytes[k] # Undef

----------------------------------------------------------------------------
(* The caller-supplied value sources *)

Gens == {"succ", "scaled"}

\* gen(idx), as a value of T: |x| x + 1 and |x| 256 * x + 7, truncated to T.
GenApply(g, i, t) ==
    CASE g = "succ" -> (i + 1) % (MaxOf(t) + 1)
      [] g = "scaled" -> (256 * i + 7) % (MaxOf(t) + 1)

\* The value each strategy writes into cell i.
copy_val(v) == v

\* Mutant: the clone is a fresh default value, not a copy of val.
clone_val_default(v) == 0

clone_val(v) == v

default_val(t) == 0

\* Mutant: gen is handed a one-based index.
gen_val_one_based(g, i, t) == GenApply(g, i + 1, t)

gen_val(g, i, t) == GenApply(g, i, t)

ElemValue(o, v, g, i, t) ==
    CASE o = "new_copies" -> copy_val(v)
      [] o = "new_clones" -> clone_val(v)
      [] o = "new_defaults" -> default_val(t)
      [] o = "new_with" -> gen_val(g, i, t)

\* new_copies runs no user code; clone, default and gen may panic.
MayPanic(o) == o \in {"new_clones", "new_defaults", "new_with"}

Strategies == {"new_copies", "new_clones", "new_defaults", "new_with"}

----------------------------------------------------------------------------
(* The pieces of the functions *)

\* Mutant: the zero-sized case is not told apart.
IsZeroSized_never(t) == FALSE

\* std::mem::size_of::<T>() == 0
IsZeroSized(t) == SizeOf(t) = 0

\* Mutant: the loop stops one cell early.
IterDone_early(i, n) == i >= n - 1

\* The end of `for t in ts.iter_mut()`: the iterator is exhausted.
IterDone(i, n) == i >= n

\* Mutant: the elements are moved into a new allocation.
transmute_moved(h) == [h EXCEPT !.init = TRUE, !.ptr = h.ptr + 8]

\* std::mem::transmute(ts): the same pointer and length, viewed as Box<[T]>.
transmute(h) == [h EXCEPT !.init = TRUE]

\* Mutant: the box forgets to release its block.
DropEvents_leak(h, t) ==
    IF h.init THEN <<Ev("drop_in_place", h.len)>> ELSE <<>>

\* What dropping a box does: a Box<[T]> tears its elements down, a
\* Box<[MaybeUninit<T>]> does not; the block is released unless its layout
\* is zero bytes.
DropEvents(h, t) ==
    (IF h.init THEN <<Ev("drop_in_place", h.len)>> ELSE <<>>)
    \o (IF h.len * SizeOf(t) # 0 THEN <<Ev("dealloc", h.ptr)>> ELSE <<>>)

\* The drop of handle h after the events `sofar`, ending at `endpc`.  Releasing
\* through a null pointer is undefined behaviour: it goes unnoticed or faults.
DropBox(h, t, sofar, endpc) ==
    /\ log' = sofar \o DropEvents(h, t)
    /\ mem' = IF h.len * SizeOf(t) # 0 /\ h.ptr # Null /\ mem.addr = h.ptr
              THEN [mem EXCEPT !.live = FALSE]
              ELSE mem
    /\ IF h.len * SizeOf(t) # 0 /\ h.ptr = Null
       THEN pc' \in {endpc, "fault"}
       ELSE pc' = endpc

\* The body of new_uninit (zeroed = FALSE) and of new_zeroed (zeroed = TRUE),
\* called with an empty log; control continues at okpc.
AllocBoxed(t, n, zeroed, okpc) ==
    LET call == Ev(IF zeroed THEN "new_zeroed" ELSE "new_uninit", n)
        req == IF zeroed THEN "alloc_zeroed" ELSE "alloc"
    IN  IF IsZeroSized(t)
        THEN /\ ts' = BoxFromRaw(Dangling(t), n)
             /\ mem' = NoMem
             /\ log' = <<call>>
             /\ pc' = okpc
        ELSE IF LayoutArray(t, n) = LayoutErr
        THEN \* .unwrap() panics
             /\ ts' = NoHandle
             /\ mem' = NoMem
             /\ log' = <<call>>
             /\ pc' = "panicked"
        ELSE \E p \in AllocOutcomes(LayoutArray(t, n)) :
             /\ ts' = BoxFromRaw(p, n)
             /\ mem' = IF p = Null THEN NoMem
                       ELSE [addr |-> p,
                             bytes |-> FreshBytes(LayoutArray(t, n), zeroed),
                             live |-> TRUE]
             /\ log' = <<call, Ev(req, LayoutArray(t, n))>>
             /\ pc' = okpc

\* The first line of every strategy constructor: let mut ts = new_uninit(len).
StrategyEntry(o, t, n, v, g) ==
    /\ pc = "idle"
    /\ op' = o /\ ty' = t /\ len' = n /\ val' = v /\ gen' = g
    /\ idx' = 0
    /\ AllocBoxed(t, n, FALSE, "fill")
    /\ UNCHANGED <<arg, src>>

----------------------------------------------------------------------------
(* The operations *)

Init ==
    /\ pc = "idle" /\ op = "none" /\ ty = "unit"
    /\ len = 0 /\ val = 0 /\ gen = "none"
    /\ ts = NoHandle /\ arg = NoHandle /\ src = <<>>
    /\ idx = 0 /\ mem = NoMem /\ log = <<>>

new_uninit(t, n) ==
    /\ pc = "idle"
    /\ op' = "new_uninit" /\ ty' = t /\ len' = n
    /\ AllocBoxed(t, n, FALSE, "held")
    /\ UNCHANGED <<val, gen, arg, src, idx>>

new_zeroed(t, n) ==
    /\ pc = "idle"
    /\ op' = "new_zeroed" /\ ty' = t /\ len' = n
    /\ AllocBoxed(t, n, TRUE, "held")
    /\ UNCHANGED <<val, gen, arg, src, idx>>

new_copies(t, n, v) == StrategyEntry("new_copies", t, n, v, "none")

new_clones(t, n, v) == StrategyEntry("new_clones", t, n, v, "none")

new_defaults(t, n) == StrategyEntry("new_defaults", t, n, 0, "none")

new_with(t, n, g) == StrategyEntry("new_with", t, n, 0, g)

\* One iteration of the fill loop: the value source is called, then its
\* result is written into the cell.  A panic of the value source unwinds
\* through the constructor, which drops `ts`; a write through a null pointer
\* faults.
FillStep ==
    /\ pc = "fill"
    /\ ~IsZeroSized(ty)
    /\ ~IterDone(idx, ts.len)
    /\ LET called == IF MayPanic(op) THEN Append(log, Ev("call", idx)) ELSE log
       IN  \/ /\ MayPanic(op)
              /\ DropBox(ts, ty, called, "panicked")
              /\ UNCHANGED idx
           \/ /\ ts.ptr = Null
              /\ pc' = "fault"
              /\ log' = called
              /\ UNCHANGED <<mem, idx>>
           \/ /\ ts.ptr # Null
              /\ mem' = [mem EXCEPT !.bytes =
                            WriteCell(mem.bytes, idx, ElemValue(op, val, gen, idx, ty), SizeOf(ty))]
              /\ log' = Append(called, Ev("write", idx))
              /\ idx' = idx + 1
              /\ pc' = "fill"
    /\ UNCHANGED <<op, ty, len, val, gen, ts, arg, src>>

\* The last line of every strategy constructor: unsafe { assume_all_init(ts) }.
FillReturn ==
    /\ pc = "fill"
    /\ (IsZeroSized(ty) \/ IterDone(idx, ts.len))
    /\ arg' = ts
    /\ ts' = transmute(ts)
    /\ log' = Append(log, Ev("assume_all_init", ts.len))
    /\ pc' = "held"
    /\ UNCHANGED <<op, ty, len, val, gen, src, idx, mem>>

\* The caller builds a Box<[MaybeUninit<T>]> of initialized cells itself
\* (Box::new([MaybeUninit::new(..), ..])).
box_new(t, s) ==
    /\ pc = "idle"
    /\ op' = "box_new" /\ ty' = t /\ len' = Len(s) /\ src' = s
    /\ \E p \in (IF Len(s) * SizeOf(t) = 0 THEN {Dangling(t)} ELSE HeapAddrs) :
          /\ ts' = BoxFromRaw(p, Len(s))
          /\ mem' = IF Len(s) * SizeOf(t) = 0 THEN NoMem
                    ELSE [addr |-> p,
                          bytes |-> [k \in 1..(Len(s) * SizeOf(t)) |->
                                        ToBytes(s[((k - 1) \div SizeOf(t)) + 1], SizeOf(t))
                                               [((k - 1) % SizeOf(t)) + 1]],
                          live |-> TRUE]
    /\ log' = <<>>
    /\ pc' = "held"
    /\ UNCHANGED <<val, gen, arg, idx>>

\* The caller knows every cell to hold a valid T: it built them, it got them
\* zeroed, or there is no cell.
CallerMayAssume ==
    \/ op \in {"box_new", "new_zeroed"}
    \/ ts.len * SizeOf(ty) = 0

\* The caller's own call of assume_all_init on the box it holds.
assume_all_init ==
    /\ pc = "held"
    /\ ~ts.init
    /\ CallerMayAssume
    /\ arg' = ts
    /\ ts' = transmute(ts)
    /\ log' = Append(log, Ev("assume_all_init", ts.len))
    /\ UNCHANGED <<pc, op, ty, len, val, gen, src, idx, mem>>

\* The caller lets the handle it holds go out of scope.
DropHandle ==
    /\ pc = "held"
    /\ DropBox(ts, ty, log, "dropped")
    /\ UNCHANGED <<op, ty, len, val, gen, ts, arg, src, idx>>

\* The call is over; the caller makes another one.
NextCall ==
    /\ pc \in {"dropped", "panicked", "fault"}
    /\ pc' = "idle" /\ op' = "none" /\ ty' = "unit"
    /\ len' = 0 /\ val' = 0 /\ gen' = "none"
    /\ ts' = NoHandle /\ arg' = NoHandle /\ src' = <<>>
    /\ idx' = 0 /\ mem' = NoMem /\ log' = <<>>

SmallSeqs(t) == UNION {[1..n -> SampleVals(t)] : n \in 0..MaxLen}

Next ==
    \/ \E t \in Types, n \in Lens : new_uninit(t, n)
    \/ \E t \in Types, n \in Lens : new_zeroed(t, n)
    \/ \E t \in Types, n \in Lens : \E v \in SampleVals(t) : new_copies(t, n, v)
    \/ \E t \in Types, n \in Lens : \E v \in SampleVals(t) : new_clones(t, n, v)
    \/ \E t \in Types, n \in Lens : new_defaults(t, n)
    \/ \E t \in Types, n \in Lens, g \in Gens : new_with(t, n, g)
    \/ \E t \in Types : \E s \in SmallSeqs(t) : box_new(t, s)
    \/ FillStep
    \/ FillReturn
    \/ assume_all_init
    \/ DropHandle
    \/ NextCall

Spec == Init /\ [][Next]_vars

----------------------------------------------------------------------------
(* Reading the event log *)

Only(kinds) == SelectSeq(log, LAMBDA e : e.e \in kinds)

Count(kinds) == Len(Only(kinds))

AllocRequests == Count({"alloc", "alloc_zeroed"})

Constructors == Strategies \cup {"new_uninit", "new_zeroed"}

\* The function returned its handle to the caller, who has not dropped it.
Returned(o) == pc = "held" /\ op = o

\* A value source panicked inside the fill loop (not the unwrap of the layout).
PanickedInFill == pc = "panicked" /\ Count({"call"}) > 0

\* The number of elements whose teardown has run.
TornDown == Count({"drop_in_place"})

----------------------------------------------------------------------------
(* The claims *)

\* C1: for T not zero-sized, new_with(len, gen) returns len elements, element i
\* being gen(i), and gen was called exactly once per index, in the order
\* 0, 1, ..., len-1.
C1_NewWithElements ==
    (Returned("new_with") /\ SizeOf(ty) # 0) =>
        /\ ts.init
        /\ ts.len = len
        /\ len > 0 => (HasStorage(ts, ty)
                       /\ Elements(ts, ty) = [i \in 1..len |-> GenApply(gen, i - 1, ty)])
        /\ Only({"call"}) = [i \in 1..len |-> Ev("call", i - 1)]

C1_Witness ==
    /\ Returned("new_with") /\ ty = "usize" /\ len = MaxLen /\ gen = "scaled"

\* C2 (as claimed): for T not zero-sized, new_uninit and new_zeroed never return
\* a handle to cells that do not exist: a failed allocation request ends the
\* call fatally.
C2_NoMissingStorage ==
    (pc = "held" /\ op \in {"new_uninit", "new_zeroed"} /\ ts.len * SizeOf(ty) > 0) =>
        HasStorage(ts, ty)

\* C3 (as claimed): when gen or clone panics at index k, the k cells written
\* so far are torn down once each, the others are not, and the block is
\* released exactly once.
C3_PartialTeardown ==
    (PanickedInFill /\ op \in {"new_with", "new_clones"}) =>
        /\ Only({"drop_in_place"}) = (IF idx > 0 THEN <<Ev("drop_in_place", idx)>> ELSE <<>>)
        /\ Count({"dealloc"}) = 1

\* C3 (amended): when gen or clone panics at index k, no cell is torn down, the
\* k written ones included (they are leaked), and the block is released
\* exactly once.
C3_LeakOnPanic ==
    (PanickedInFill /\ op \in {"new_with", "new_clones"}) =>
        /\ Count({"write"}) = idx
        /\ TornDown = 0
        /\ Only({"dealloc"}) = <<Ev("dealloc", ts.ptr)>>
        /\ ~mem.live

C3_Witness ==
    /\ PanickedInFill /\ op = "new_with" /\ idx = MaxLen - 1 /\ idx > 0

\* C4 (as claimed): with len = 0 every constructor returns an empty sequence
\* and makes no allocation request, no write and no call of gen, clone or
\* default.
C4_EmptyNoAlloc ==
    (len = 0 /\ op \in Constructors) =>
        /\ pc \notin {"panicked", "fault"}
        /\ pc = "held" => ts.len = 0
        /\ AllocRequests = 0
        /\ Count({"write", "call"}) = 0

\* C5: for a zero-sized T every constructor returns a handle of the requested
\* length, with no allocation request, no write and no call of gen, clone or
\* default.
C5_ZeroSized ==
    (SizeOf(ty) = 0 /\ op \in Constructors) =>
        /\ pc \notin {"panicked", "fault"}
        /\ pc = "held" => ts.len = len
        /\ AllocRequests = 0
        /\ Count({"write", "call"}) = 0

C5_Witness ==
    /\ Returned("new_with") /\ ty = "unit" /\ len = USIZE_MAX /\ ts.init

\* C6: assume_all_init returns the length and the address it was given and
\* touches no cell: a sequence viewed as maybe-uninitialized cells and passed
\* through it reads back equal.
C6_AssumeRoundTrip ==
    (pc = "held" /\ ts.init) =>
        /\ ts.len = arg.len
        /\ ts.ptr = arg.ptr
        /\ op = "box_new" => (HasStorage(ts, ty) /\ Elements(ts, ty) = src)

C6_Witness ==
    /\ pc = "held" /\ ts.init /\ op = "box_new" /\ ty = "usize"
    /\ Len(src) = MaxLen /\ src[1] = MaxOf("usize") /\ src[MaxLen] = 1

\* C7 (as claimed): for every len, new_zeroed returns storage whose bytes are
\* all zero, so that assume_all_init of it is a sequence of len zero values.
C7_ZeroedStorage ==
    (Returned("new_zeroed") /\ ts.len * SizeOf(ty) > 0) =>
        /\ HasStorage(ts, ty)
        /\ \A k \in 1..Len(mem.bytes) : mem.bytes[k] = 0
        /\ ts.init => Elements(ts, ty) = [i \in 1..len |-> 0]

\* C8: new_uninit(len) and new_zeroed(len) return a handle of length len,
\* after exactly one allocation request, or none for a zero-sized T.
C8_LengthAndOneRequest ==
    (pc = "held" /\ op \in {"new_uninit", "new_zeroed"}) =>
        /\ ts.len = len
        /\ AllocRequests = (IF SizeOf(ty) = 0 THEN 0 ELSE 1)
        /\ Count({"alloc_zeroed"}) = (IF op = "new_zeroed" /\ SizeOf(ty) # 0 THEN 1 ELSE 0)

C8_Witness ==
    /\ Returned("new_uninit") /\ ~ts.init /\ ty = "usize" /\ len = MaxLen
    /\ ts.ptr # Null

\* C9: for T not zero-sized, new_copies(len, val) and new_clones(len, val)
\* return the same sequence: len elements, each equal to val.
C9_CopiesEqualClones ==
    (pc = "held" /\ op \in {"new_copies", "new_clones"} /\ SizeOf(ty) # 0) =>
        /\ ts.len = len
        /\ len > 0 =>
            /\ HasStorage(ts, ty)
            /\ Elements(ts, ty) = [i \in 1..len |-> val]
            /\ Elements(ts, ty) =
                 [i \in 1..len |->
                    ElemValue(IF op = "new_copies" THEN "new_clones" ELSE "new_copies",
                              val, gen, i - 1, ty)]

C9_Witness ==
    /\ Returned("new_clones") /\ ty = "usize" /\ len = MaxLen /\ val = MaxOf("usize")

\* C10: a strategy constructor that returns, T not zero-sized, has done, in
\* this order: one call of new_uninit(len), one write to each cell 0..len-1 in
\* ascending order, one call of assume_all_init; no cell is unwritten then.
C10_CallOrder ==
    (pc = "held" /\ op \in Strategies /\ SizeOf(ty) # 0) =>
        /\ Only({"new_uninit", "new_zeroed", "write", "assume_all_init"}) =
              <<Ev("new_uninit", len)>>
              \o [i \in 1..len |-> Ev("write", i - 1)]
              \o <<Ev("assume_all_init", len)>>
        /\ len > 0 => (Len(mem.bytes) = len * SizeOf(ty) /\ Defined(mem.bytes))

C10_Witness ==
    /\ Returned("new_defaults") /\ ty = "u8" /\ len = MaxLen

====
